---------------------------- MODULE Spec2Model ----------------------------
(***************************************************************************)
(* Y-monotone decomposition and triangulation of polygons with holes       *)
(* (geom/src/tesselation/monotone.rs), on exact integer coordinates.       *)
(*                                                                         *)
(* Coordinates are integers (every f32 operation of the source is exact on *)
(* them, except the division and the sum of                                *)
(* intersect_segment_with_horizontal, which are rounded as f32 rounds).    *)
(* The y axis points downwards, as in the source.  VertexId and point      *)
(* indices are 1-based here, 0-based there.                                *)
(***************************************************************************)
EXTENDS Integers, Sequences, FiniteSets, TLC

VARIABLES
    mode,           \* "complex": decomposition, partition, triangulation; "view": triangulation of one view; "pred": the predicates
    pc,             \* position in the pipeline
    positions,      \* vertex_positions: VertexId -> Vec2
    rings,          \* ComplexPolygon: <<main, hole, ...>>, each ring a sequence of VertexId
    sorted_edges,   \* the decomposer's event queue
    ev,             \* number of events of sorted_edges already processed
    sweep_state,    \* the decomposer's sweep status
    helper,         \* DecompositionContext.helper: ComplexPointId -> (ComplexPointId, VertexType)
    diagonals,      \* Diagonals: the sequence of add_diagonal calls
    last_type,      \* the VertexType of the event processed last
    sub_polygons,   \* the views produced by the partition, each a sequence of VertexId
    sub,            \* index of the view being triangulated
    up, down,       \* Circulators of the triangulator
    m, o, p,
    vertex_stack,
    i,
    triangle_count,
    output,         \* every triangle pushed, as <<sub, <<id, id, id>>, branch>>
    failure,        \* "" or the panic / failed assertion that stopped the run
    args,           \* inputs of the predicates (mode "pred")
    ret,            \* their results
    history         \* the calls already made on the two contexts: polygon, diagonals, triangles

vars == <<mode, pc, positions, rings, sorted_edges, ev, sweep_state, helper,
          diagonals, last_type, sub_polygons, sub, up, down, m, o, p,
          vertex_stack, i, triangle_count, output, failure, args, ret, history>>

-----------------------------------------------------------------------------
(* Bounds *)

\* grid coordinates are 0..GridMax
GridMax == 2
\* the longest ring enumerated on the grid
MaxN == 5
\* the longest hole ring enumerated on the grid
MaxHoleN == 3
\* loop iterations of the triangulator after which a run is declared stuck
MaxIter == 16
\* the number of polygons processed in a row with the same two contexts
MaxCalls == 3

\* the side of the grid of the predicates' arguments
PredMax == 3

-----------------------------------------------------------------------------
(* Vectors: half_edge::vectors, as used by monotone.rs *)

Vec2(x, y) == [x |-> x, y |-> y]

vec2_sub(a, b) == Vec2(a.x - b.x, a.y - b.y)

Cross(a, b) == a.x * b.y - a.y * b.x

Dot(a, b) == a.x * b.x + a.y * b.y

Max(a, b) == IF a >= b THEN a ELSE b

Abs(x) == IF x < 0 THEN -x ELSE x

(***************************************************************************)
(* Angles are kept by their position against 0 and PI, which is all the    *)
(* source compares them with: 0 is the angle 0, 1 any angle in (0, PI),    *)
(* 2 the angle PI, 3 any angle in (PI, 2 PI).                              *)
(***************************************************************************)
PI == 2

\* atan2(0, 0) is 0: a null vector has the direction of the x axis
Direction2(v) == IF v.x = 0 /\ v.y = 0 THEN Vec2(1, 0) ELSE v

\* directed_angle(a, b): the angle from a to b, in [0, 2 PI)
directed_angle(a, b) ==
    LET da == Direction2(a)
        db == Direction2(b)
        c == Cross(da, db)
    IN  IF c > 0 THEN 1
        ELSE IF c < 0 THEN 3
        ELSE IF Dot(da, db) > 0 THEN 0 ELSE 2

-----------------------------------------------------------------------------
(* Predicates *)

is_below_xge(a, b) == a.y > b.y \/ (a.y = b.y /\ a.x >= b.x)

is_below(a, b) == a.y > b.y \/ (a.y = b.y /\ a.x > b.x)

get_vertex_type_zero_angle(prev, current, next) ==
    LET interrior_angle == directed_angle(vec2_sub(prev, current), vec2_sub(next, current))
    IN  IF is_below(current, prev) /\ is_below(current, next)
        THEN IF interrior_angle < PI THEN "Merge" ELSE "End"
        ELSE IF ~is_below(current, prev) /\ ~is_below(current, next)
        THEN IF interrior_angle < PI THEN "Split" ELSE "Start"
        ELSE IF prev.y = next.y
        THEN IF prev.x < next.x THEN "Right" ELSE "Left"
        ELSE IF prev.y < next.y THEN "Right" ELSE "Left"

\* the classification without the test of the interior angle
get_vertex_type_no_angle(prev, current, next) ==
    IF is_below(current, prev) /\ is_below(current, next) THEN "End"
    ELSE IF ~is_below(current, prev) /\ ~is_below(current, next) THEN "Start"
    ELSE IF prev.y = next.y
    THEN IF prev.x < next.x THEN "Right" ELSE "Left"
    ELSE IF prev.y < next.y THEN "Right" ELSE "Left"

get_vertex_type(prev, current, next) ==
    LET interrior_angle == directed_angle(vec2_sub(prev, current), vec2_sub(next, current))
    IN  IF is_below(current, prev) /\ is_below(current, next)
        THEN IF interrior_angle < PI /\ interrior_angle # 0 THEN "Merge" ELSE "End"
        ELSE IF ~is_below(current, prev) /\ ~is_below(current, next)
        THEN IF interrior_angle < PI /\ interrior_angle # 0 THEN "Split" ELSE "Start"
        ELSE IF prev.y = next.y
        THEN IF prev.x < next.x THEN "Right" ELSE "Left"
        ELSE IF prev.y < next.y THEN "Right" ELSE "Left"

(***************************************************************************)
(* f32 arithmetic.  A finite f32 is held exactly as ip + fp / 2^FracBits,  *)
(* ip the floor and 0 <= fp < 2^FracBits; cls tells a finite value from    *)
(* the results of a division by zero.  Differences and products of the     *)
(* coordinates are integers below 2^24 and so exact in f32; the quotient   *)
(* and the sum are rounded to 24 significant bits, ties to even, as the    *)
(* hardware does.  The representation is exact for coordinates below 64 in *)
(* magnitude (quotients of magnitude 2^-7 and more); -0 is held as 0, the  *)
(* two compare equal.                                                      *)
(***************************************************************************)
FracBits == 30

MantissaBits == 24

RECURSIVE Pow2(_)
Pow2(k) == IF k = 0 THEN 1 ELSE 2 * Pow2(k - 1)

\* the number of binary digits of n >= 0
RECURSIVE BitLen(_)
BitLen(n) == IF n = 0 THEN 0 ELSE 1 + BitLen(n \div 2)

Fixed(ip, fp) == [cls |-> "finite", ip |-> ip, fp |-> fp]

\* the conversion of an integer coordinate
F32(n) == Fixed(n, 0)

NotFinite(cls) == [cls |-> cls, ip |-> 0, fp |-> 0]

\* n / d with d > 0, rounded to the nearest integer, ties to even
round_half_even(n, d) ==
    LET q == n \div d
        r == n % d
    IN  IF 2 * r > d \/ (2 * r = d /\ q % 2 = 1) THEN q + 1 ELSE q

\* sign and magnitude of a finite value
f32_magnitude(v) ==
    IF v.ip >= 0 THEN [neg |-> FALSE, ip |-> v.ip, fp |-> v.fp]
    ELSE IF v.fp = 0 THEN [neg |-> TRUE, ip |-> -v.ip, fp |-> 0]
    ELSE [neg |-> TRUE, ip |-> -v.ip - 1, fp |-> Pow2(FracBits) - v.fp]

f32_signed(neg, ip, fp) ==
    IF ~neg THEN Fixed(ip, fp)
    ELSE IF fp = 0 THEN Fixed(-ip, 0)
    ELSE Fixed(-ip - 1, Pow2(FracBits) - fp)

\* the magnitude ip + fp / 2^FracBits rounded to MantissaBits significant bits
f32_round(neg, ip, fp) ==
    LET len == IF ip > 0 THEN FracBits + BitLen(ip) ELSE BitLen(fp)
        sh == len - MantissaBits
        kept == round_half_even(fp, Pow2(sh)) * Pow2(sh)
    IN  IF sh <= 0 THEN f32_signed(neg, ip, fp)
        ELSE IF kept = Pow2(FracBits) THEN f32_signed(neg, ip + 1, 0)
        ELSE f32_signed(neg, ip, kept)

\* the least k with n * 2^k >= 2^(MantissaBits - 1) * d, for n > 0 and d > 0
RECURSIVE f32_shift(_, _)
f32_shift(n, d) == IF n >= Pow2(MantissaBits - 1) * d THEN 0 ELSE 1 + f32_shift(2 * n, d)

\* the f32 quotient of the integers n and d
f32_div(n, d) ==
    IF d = 0 THEN NotFinite(IF n = 0 THEN "nan" ELSE IF n > 0 THEN "inf" ELSE "-inf")
    ELSE IF n = 0 THEN F32(0)
    ELSE LET neg == (n < 0) # (d < 0)
             an == IF n < 0 THEN -n ELSE n
             ad == IF d < 0 THEN -d ELSE d
             k == f32_shift(an, ad)
             mant == round_half_even(an * Pow2(k), ad)
         IN  f32_signed(neg, mant \div Pow2(k), (mant % Pow2(k)) * Pow2(FracBits - k))

\* the f32 sum of two values
f32_add(v, w) ==
    IF v.cls # "finite" \/ w.cls # "finite"
    THEN IF v.cls = "finite" THEN w
         ELSE IF w.cls = "finite" \/ w.cls = v.cls THEN v
         ELSE NotFinite("nan")
    ELSE LET fsum == v.fp + w.fp
             isum == v.ip + w.ip + fsum \div Pow2(FracBits)
             mag == f32_magnitude(Fixed(isum, fsum % Pow2(FracBits)))
         IN  f32_round(mag.neg, mag.ip, mag.fp)

\* partial_cmp(..) == Less on finite values
f32_less(v, w) == v.ip < w.ip \/ (v.ip = w.ip /\ v.fp < w.fp)

intersect_segment_with_horizontal_nocheck(a, b, y) ==
    LET vx == b.x - a.x
        vy == b.y - a.y
    IN  f32_add(F32(a.x), f32_div((y - a.y) * vx, vy))

intersect_segment_with_horizontal(a, b, y) ==
    LET vx == b.x - a.x
        vy == b.y - a.y
    IN  IF vy = 0
        THEN F32(Max(a.x, b.x))
        ELSE f32_add(F32(a.x), f32_div((y - a.y) * vx, vy))

\* the comparator of sorted_edges.sort_by
event_cmp_xrev(va, vb) ==
    IF va.y > vb.y THEN "Greater"
    ELSE IF va.y < vb.y THEN "Less"
    ELSE IF va.x > vb.x THEN "Less"
    ELSE IF va.x < vb.x THEN "Greater"
    ELSE "Equal"

event_cmp(va, vb) ==
    IF va.y > vb.y THEN "Greater"
    ELSE IF va.y < vb.y THEN "Less"
    ELSE IF va.x > vb.x THEN "Greater"
    ELSE IF va.x < vb.x THEN "Less"
    ELSE "Equal"

-----------------------------------------------------------------------------
(* The polygon oracle: tesselation::polygon, as monotone.rs uses it *)

\* a ComplexPointId is <<ring, index>>; ring 1 is the main ring (polygon_id(0))
point_ids(rs, r) == [k \in 1..Len(rs[r]) |-> <<r, k>>]

\* every ring gathered twice
RECURSIVE all_point_ids_twice(_, _)
all_point_ids_twice(rs, r) ==
    IF r = 0 THEN <<>> ELSE all_point_ids_twice(rs, r - 1) \o point_ids(rs, r) \o point_ids(rs, r)

RECURSIVE all_point_ids(_, _)
all_point_ids(rs, r) ==
    IF r = 0 THEN <<>> ELSE all_point_ids(rs, r - 1) \o point_ids(rs, r)

poly_next(rs, e) == <<e[1], IF e[2] = Len(rs[e[1]]) THEN 1 ELSE e[2] + 1>>

poly_previous(rs, e) == <<e[1], IF e[2] = 1 THEN Len(rs[e[1]]) ELSE e[2] - 1>>

poly_vertex(rs, e) == rs[e[1]][e[2]]

\* vertex_positions[polygon.vertex(e)].position()
vertex_position(pos, rs, e) == pos[poly_vertex(rs, e)]

\* a PolygonView is a sequence of VertexId; its points are 1..Len
view_advance(vs, pt, dir) ==
    IF dir = "Forward"
    THEN IF pt = Len(vs) THEN 1 ELSE pt + 1
    ELSE IF pt = 1 THEN Len(vs) ELSE pt - 1

reverse(dir) == IF dir = "Forward" THEN "Backward" ELSE "Forward"

\* twice the signed area of a ring of positions; positive for a clockwise ring (y down)
RECURSIVE Area2Upto(_, _)
Area2Upto(pts, k) ==
    IF k = 0 THEN 0
    ELSE Area2Upto(pts, k - 1) + Cross(pts[k], pts[IF k = Len(pts) THEN 1 ELSE k + 1])

Area2(pts) == Area2Upto(pts, Len(pts))

\* compute_winding_order
compute_winding_order(pts) ==
    LET a == Area2(pts)
    IN  IF a > 0 THEN "Clockwise" ELSE IF a < 0 THEN "CounterClockwise" ELSE "None"

-----------------------------------------------------------------------------
(* SweepLineBuilder *)

\* the sort key of sweep_line.sort_by: the x where edge e -> next(e) meets the line at y
sweep_key(pos, rs, e, y) ==
    intersect_segment_with_horizontal(vertex_position(pos, rs, e),
                                      vertex_position(pos, rs, poly_next(rs, e)), y)

\* the insertion with the comparison the other way round: decreasing x
RECURSIVE sweep_insert_desc(_, _, _, _, _)
sweep_insert_desc(pos, rs, sl, e, y) ==
    IF sl = <<>> THEN <<e>>
    ELSE IF f32_less(sweep_key(pos, rs, sl[Len(sl)], y), sweep_key(pos, rs, e, y))
         THEN Append(sweep_insert_desc(pos, rs, SubSeq(sl, 1, Len(sl) - 1), e, y), sl[Len(sl)])
         ELSE Append(sl, e)

\* one insertion of a stable sort: e goes after every element that is not greater
RECURSIVE sweep_insert(_, _, _, _, _)
sweep_insert(pos, rs, sl, e, y) ==
    IF sl = <<>> THEN <<e>>
    ELSE IF f32_less(sweep_key(pos, rs, e, y), sweep_key(pos, rs, sl[Len(sl)], y))
         THEN Append(sweep_insert(pos, rs, SubSeq(sl, 1, Len(sl) - 1), e, y), sl[Len(sl)])
         ELSE Append(sl, e)

\* sort_by is a stable sort: the first k elements of sl, sorted by sweep_key
RECURSIVE sweep_sort(_, _, _, _, _)
sweep_sort(pos, rs, sl, k, y) ==
    IF k = 0 THEN <<>> ELSE sweep_insert(pos, rs, sweep_sort(pos, rs, sl, k - 1, y), sl[k], y)

sweep_add_nosort(pos, rs, sl, e, cur) == Append(sl, e)

sweep_add(pos, rs, sl, e, cur) ==
    LET pushed == Append(sl, e)
    IN  sweep_sort(pos, rs, pushed, Len(pushed), cur.y)

\* retain with the test the other way round
sweep_remove_others(sl, e) == SelectSeq(sl, LAMBDA item : item = e)

sweep_remove(sl, e) == SelectSeq(sl, LAMBDA item : item # e)

NoEdge == <<0, 0>>

\* the search without the early return: the last edge that is not left of cur
find_right_of_current_vertex_last(pos, rs, sl, cur) ==
    LET hits == {k \in 1..Len(sl) :
                    ~f32_less(sweep_key(pos, rs, sl[k], cur.y), F32(cur.x))}
    IN  IF hits = {} THEN NoEdge
        ELSE sl[CHOOSE k \in hits : \A j \in hits : k >= j]

\* the first edge of the sweep status that is not left of cur; NoEdge where the source panics
find_right_of_current_vertex(pos, rs, sl, cur) ==
    LET hits == {k \in 1..Len(sl) :
                    ~f32_less(sweep_key(pos, rs, sl[k], cur.y), F32(cur.x))}
    IN  IF hits = {} THEN NoEdge
        ELSE sl[CHOOSE k \in hits : \A j \in hits : k <= j]

-----------------------------------------------------------------------------
(* The helper table and the diagonals *)

\* the table left as the previous call left it
helper_keep(hp) == hp

\* self.helper.clear()
helper_clear(hp) == [k \in {} |-> 0]

EmptyMap == [k \in {} |-> 0]

map_insert(hp, k, v) == [x \in DOMAIN hp \cup {k} |-> IF x = k THEN v ELSE hp[x]]

\* the whole table emptied
map_remove_all(hp, k) == [j \in {} |-> 0]

map_remove(hp, k) == [x \in DOMAIN hp \ {k} |-> hp[x]]

Helper(pt, type) == [point |-> pt, type |-> type]

add_diagonal(dg, a, b) == Append(dg, <<a, b>>)

connect_with_helper_if_split_vertex(current_edge, helper_edge, hp, dg) ==
    IF helper_edge \in DOMAIN hp /\ hp[helper_edge].type = "Split"
    THEN add_diagonal(dg, hp[helper_edge].point, current_edge)
    ELSE dg

\* no connection made, whatever the type of the helper is
connect_with_helper_never(current_edge, helper_edge, hp, dg) == dg

\* the connection made whatever the type of the helper is
connect_with_helper_always(current_edge, helper_edge, hp, dg) ==
    IF helper_edge \in DOMAIN hp
    THEN add_diagonal(dg, hp[helper_edge].point, current_edge)
    ELSE dg

connect_with_helper_if_merge_vertex(current_edge, helper_edge, hp, dg) ==
    IF helper_edge \in DOMAIN hp /\ hp[helper_edge].type = "Merge"
    THEN add_diagonal(dg, hp[helper_edge].point, current_edge)
    ELSE dg

\* one insertion of the stable sort of the events
RECURSIVE event_insert(_, _, _, _)
event_insert(pos, rs, es, e) ==
    IF es = <<>> THEN <<e>>
    ELSE IF event_cmp(vertex_position(pos, rs, e), vertex_position(pos, rs, es[Len(es)])) = "Less"
         THEN Append(event_insert(pos, rs, SubSeq(es, 1, Len(es) - 1), e), es[Len(es)])
         ELSE Append(es, e)

RECURSIVE event_sort(_, _, _, _)
event_sort(pos, rs, es, k) ==
    IF k = 0 THEN <<>> ELSE event_insert(pos, rs, event_sort(pos, rs, es, k - 1), es[k])

\* the scan of is_y_monotone from point pt on: false at the first Split or Merge
RECURSIVE is_y_monotone_from(_, _, _)
is_y_monotone_from(pos, vs, pt) ==
    IF pt > Len(vs) THEN TRUE
    ELSE IF get_vertex_type(pos[vs[view_advance(vs, pt, "Backward")]],
                            pos[vs[pt]],
                            pos[vs[view_advance(vs, pt, "Forward")]]) \in {"Split", "Merge"}
         THEN FALSE
         ELSE is_y_monotone_from(pos, vs, pt + 1)

is_y_monotone_inner(pos, vs) == is_y_monotone_from(pos, vs, 2)

\* is_y_monotone of a view
is_y_monotone(pos, vs) == is_y_monotone_from(pos, vs, 1)

-----------------------------------------------------------------------------
(* The partition of the polygon along its diagonals: polygon_partition *)

Range(f) == {f[k] : k \in DOMAIN f}

\* directed_angle(r, d1) < directed_angle(r, d2), for non-null vectors
angle_less(r, d1, d2) ==
    LET c1 == directed_angle(r, d1)
        c2 == directed_angle(r, d2)
    IN  IF c1 # c2 THEN c1 < c2
        ELSE IF c1 = 0 \/ c1 = PI THEN FALSE
        ELSE Cross(d1, d2) > 0

\* the boundary edges p -> next(p), then both directions of every diagonal
RECURSIVE diagonal_edges(_, _)
diagonal_edges(dg, k) ==
    IF k = 0 THEN <<>>
    ELSE diagonal_edges(dg, k - 1) \o <<dg[k], <<dg[k][2], dg[k][1]>>>>

half_edges(rs, dg) ==
    LET pts == all_point_ids(rs, Len(rs))
    IN  [k \in 1..Len(pts) |-> <<pts[k], poly_next(rs, pts[k])>>] \o diagonal_edges(dg, Len(dg))

\* the edge that follows h around the face on the interior side of h
face_succ(pos, rs, hs, h) ==
    LET v == h[2]
        back == vec2_sub(vertex_position(pos, rs, h[1]), vertex_position(pos, rs, v))
        dir(w) == vec2_sub(vertex_position(pos, rs, w), vertex_position(pos, rs, v))
        cands == {g[2] : g \in {g \in hs : g[1] = v /\ g[2] # h[1]}}
    IN  IF cands = {} THEN <<v, h[1]>>
        ELSE <<v, CHOOSE w \in cands :
                    \A w2 \in cands \ {w} : ~angle_less(back, dir(w), dir(w2))>>

RECURSIVE trace_face(_, _, _, _, _, _)
trace_face(pos, rs, hs, h0, h, acc) ==
    LET nxt == face_succ(pos, rs, hs, h)
    IN  IF nxt = h0 \/ Len(acc) >= Cardinality(hs) THEN Append(acc, h)
        ELSE trace_face(pos, rs, hs, h0, nxt, Append(acc, h))

RECURSIVE partition_from(_, _, _, _, _, _)
partition_from(pos, rs, hseq, k, seen, faces) ==
    IF k > Len(hseq) THEN faces
    ELSE IF hseq[k] \in seen THEN partition_from(pos, rs, hseq, k + 1, seen, faces)
    ELSE LET f == trace_face(pos, rs, Range(hseq), hseq[k], hseq[k], <<>>)
         IN  partition_from(pos, rs, hseq, k + 1, seen \cup Range(f),
                            Append(faces, [j \in 1..Len(f) |-> poly_vertex(rs, f[j][1])]))

partition_polygon(pos, rs, dg) ==
    partition_from(pos, rs, half_edges(rs, dg), 1, {}, <<>>)

-----------------------------------------------------------------------------
(* TriangulationContext::y_monotone_triangulation *)

Circulator(pt, dir) == [point |-> pt, direction |-> dir]

\* the closures vertex, next and previous
circ_vertex(pos, vs, c) == pos[vs[c.point]]

circ_next(vs, c) == Circulator(view_advance(vs, c.point, c.direction), c.direction)

circ_previous(vs, c) == Circulator(view_advance(vs, c.point, reverse(c.direction)), c.direction)

\* a search loop left after k iterations with the circulator c; a loop that is still
\* running after MaxIter iterations is cut there
Walked(c, k) == [c |-> c, steps |-> k]

\* the first loop: advance down until its y differs from up's, or it is back on up
RECURSIVE find_orientation_walk(_, _, _, _, _)
find_orientation_walk(pos, vs, cu, cd, k) ==
    LET d2 == circ_next(vs, cd)
    IN  IF circ_vertex(pos, vs, cu).y # circ_vertex(pos, vs, d2).y THEN Walked(d2, k + 1)
        ELSE IF d2 = cu THEN Walked(d2, k + 1)
        ELSE IF k >= MaxIter THEN Walked(d2, k + 1)
        ELSE find_orientation_walk(pos, vs, cu, d2, k + 1)

find_orientation(pos, vs, cu, cd) == find_orientation_walk(pos, vs, cu, cd, 0).c

\* the second loop without its guard
RECURSIVE find_down_walk_no_guard(_, _, _, _, _, _)
find_down_walk_no_guard(pos, vs, cd, big_y, guard, k) ==
    LET d2 == circ_next(vs, cd)
        new_y == circ_vertex(pos, vs, d2)
    IN  IF is_below(big_y, new_y) THEN Walked(circ_previous(vs, d2), k + 1)
        ELSE IF k >= MaxIter THEN Walked(d2, k + 1)
        ELSE find_down_walk_no_guard(pos, vs, d2, new_y, guard, k + 1)

\* the second loop: the bottom-most vertex
RECURSIVE find_down_walk(_, _, _, _, _, _)
find_down_walk(pos, vs, cd, big_y, guard, k) ==
    LET d2 == circ_next(vs, cd)
        new_y == circ_vertex(pos, vs, d2)
    IN  IF is_below(big_y, new_y) THEN Walked(circ_previous(vs, d2), k + 1)
        ELSE IF d2 = guard THEN Walked(d2, k + 1)
        ELSE IF k >= MaxIter THEN Walked(d2, k + 1)
        ELSE find_down_walk(pos, vs, d2, new_y, guard, k + 1)

find_down(pos, vs, cd, big_y, guard) == find_down_walk(pos, vs, cd, big_y, guard, 0).c

\* the third loop comparing the y coordinates only
RECURSIVE find_up_walk_y_only(_, _, _, _, _, _)
find_up_walk_y_only(pos, vs, cu, small_y, guard, k) ==
    LET u2 == circ_next(vs, cu)
        new_y == circ_vertex(pos, vs, u2)
    IN  IF new_y.y > small_y.y THEN Walked(circ_previous(vs, u2), k + 1)
        ELSE IF u2 = guard THEN Walked(u2, k + 1)
        ELSE IF k >= MaxIter THEN Walked(u2, k + 1)
        ELSE find_up_walk_y_only(pos, vs, u2, new_y, guard, k + 1)

\* the third loop: the top-most vertex
RECURSIVE find_up_walk(_, _, _, _, _, _)
find_up_walk(pos, vs, cu, small_y, guard, k) ==
    LET u2 == circ_next(vs, cu)
        new_y == circ_vertex(pos, vs, u2)
    IN  IF is_below(new_y, small_y) THEN Walked(circ_previous(vs, u2), k + 1)
        ELSE IF u2 = guard THEN Walked(u2, k + 1)
        ELSE IF k >= MaxIter THEN Walked(u2, k + 1)
        ELSE find_up_walk(pos, vs, u2, new_y, guard, k + 1)

find_up(pos, vs, cu, small_y, guard) == find_up_walk(pos, vs, cu, small_y, guard, 0).c

\* the iterations made by the three search loops, in order
search_steps(pos, vs) ==
    LET up0 == Circulator(1, "Forward")
        w1 == find_orientation_walk(pos, vs, up0, up0, 0)
        up1 == Circulator(up0.point,
                          IF is_below(circ_vertex(pos, vs, up0), circ_vertex(pos, vs, w1.c))
                          THEN "Forward" ELSE "Backward")
        down2 == Circulator(w1.c.point, reverse(up1.direction))
    IN  <<w1.steps,
          find_down_walk(pos, vs, down2, circ_vertex(pos, vs, down2), down2, 0).steps,
          find_up_walk(pos, vs, up1, circ_vertex(pos, vs, up1), up1, 0).steps>>

\* everything before the main loop: up, down and the two walkers
triangulation_setup(pos, vs) ==
    LET up0 == Circulator(1, "Forward")
        down1 == find_orientation(pos, vs, up0, up0)
        up1 == Circulator(up0.point,
                          IF is_below(circ_vertex(pos, vs, up0), circ_vertex(pos, vs, down1))
                          THEN "Forward" ELSE "Backward")
        down2 == Circulator(down1.point, reverse(up1.direction))
        down3 == find_down(pos, vs, down2, circ_vertex(pos, vs, down2), down2)
        up3 == find_up(pos, vs, up1, circ_vertex(pos, vs, up1), up1)
        m0 == circ_next(vs, Circulator(up3.point, "Forward"))
        o0 == circ_next(vs, Circulator(up3.point, "Backward"))
        swapped == is_below(circ_vertex(pos, vs, m0), circ_vertex(pos, vs, o0))
        m1 == IF swapped THEN o0 ELSE m0
        o1 == IF swapped THEN m0 ELSE o0
        m2 == circ_previous(vs, m1)
    IN  [up |-> up3, down |-> down3, m |-> m2, o |-> o1, p |-> m2]

\* the swap that handles the lower of the two walkers
swap_walkers_lower(pos, vs, cm, co, cd) ==
    IF ~is_below(circ_vertex(pos, vs, cm), circ_vertex(pos, vs, co)) \/ cm = cd
    THEN [m |-> co, o |-> cm]
    ELSE [m |-> cm, o |-> co]

\* if is_below(vertex(m), vertex(o)) || m == down { swap(&mut m, &mut o); }
swap_walkers(pos, vs, cm, co, cd) ==
    IF is_below(circ_vertex(pos, vs, cm), circ_vertex(pos, vs, co)) \/ cm = cd
    THEN [m |-> co, o |-> cm]
    ELSE [m |-> cm, o |-> co]

Triangle(ids, branch, dir) == [ids |-> ids, branch |-> branch, direction |-> dir]

\* the triangles of a chain switch: (m, stack[k], stack[k + 1])
switch_triangles_points(vs, stack, cm) ==
    [k \in 1..(Len(stack) - 1) |->
        Triangle(<<cm.point, stack[k].point, stack[k + 1].point>>, "switch", cm.direction)]

switch_triangles_short(vs, stack, cm) ==
    [k \in 1..(Len(stack) - 2) |->
        Triangle(<<vs[cm.point], vs[stack[k].point], vs[stack[k + 1].point]>>, "switch", cm.direction)]

switch_triangles_fan(vs, stack, cm) ==
    [k \in 1..(Len(stack) - 1) |->
        Triangle(<<vs[cm.point], vs[stack[1].point], vs[stack[k + 1].point]>>, "switch", cm.direction)]

switch_triangles(vs, stack, cm) ==
    [k \in 1..(Len(stack) - 1) |->
        Triangle(<<vs[cm.point], vs[stack[k].point], vs[stack[k + 1].point]>>, "switch", cm.direction)]

RECURSIVE pop_loop_top(_, _, _, _, _, _)
pop_loop_top(pos, vs, stack, lp, cm, acc) ==
    IF Len(stack) < 1 THEN [stack |-> stack, last_popped |-> lp, tris |-> acc]
    ELSE LET top == vs[stack[Len(stack)].point]
             id_2 == vs[stack[Len(stack)].point]
             cur == vs[cm.point]
             id_1 == IF cm.direction = "Backward" THEN cur ELSE top
             id_3 == IF cm.direction = "Backward" THEN top ELSE cur
         IN  IF directed_angle(vec2_sub(pos[id_1], pos[id_2]), vec2_sub(pos[id_3], pos[id_2])) > PI
             THEN pop_loop_top(pos, vs, SubSeq(stack, 1, Len(stack) - 1), <<stack[Len(stack)]>>, cm,
                               Append(acc, Triangle(<<id_1, id_2, id_3>>, "same", cm.direction)))
             ELSE [stack |-> stack, last_popped |-> lp, tris |-> acc]

\* the inner loop of the same-chain case; lp is last_popped, <<>> for None
RECURSIVE pop_loop(_, _, _, _, _, _)
pop_loop(pos, vs, stack, lp, cm, acc) ==
    IF Len(stack) < 1 THEN [stack |-> stack, last_popped |-> lp, tris |-> acc]
    ELSE LET top == vs[stack[Len(stack)].point]
             id_2 == vs[lp[1].point]
             cur == vs[cm.point]
             id_1 == IF cm.direction = "Backward" THEN cur ELSE top
             id_3 == IF cm.direction = "Backward" THEN top ELSE cur
         IN  IF directed_angle(vec2_sub(pos[id_1], pos[id_2]), vec2_sub(pos[id_3], pos[id_2])) > PI
             THEN pop_loop(pos, vs, SubSeq(stack, 1, Len(stack) - 1), <<stack[Len(stack)]>>, cm,
                           Append(acc, Triangle(<<id_1, id_2, id_3>>, "same", cm.direction)))
             ELSE [stack |-> stack, last_popped |-> lp, tris |-> acc]

\* the same-chain case: pop, connect, push back
same_chain(pos, vs, stack, cm) ==
    LET popped == IF stack = <<>> THEN <<>> ELSE <<stack[Len(stack)]>>
        rest == IF stack = <<>> THEN <<>> ELSE SubSeq(stack, 1, Len(stack) - 1)
        r == pop_loop(pos, vs, rest, popped, cm, <<>>)
    IN  [stack |-> Append(r.stack \o r.last_popped, cm), tris |-> r.tris]

-----------------------------------------------------------------------------
(* The inputs: simple rings on the grid, and the shapes of the tests *)

GridPoints == {Vec2(x, y) : x \in 0..GridMax, y \in 0..GridMax}

\* the arguments of the predicates: a grid on which a segment has a slope of one third
PredPoints == {Vec2(x, y) : x \in 0..PredMax, y \in 0..PredMax}

Sgn(x) == IF x > 0 THEN 1 ELSE IF x < 0 THEN -1 ELSE 0

Min(a, b) == IF a <= b THEN a ELSE b

\* q lies on the closed segment a b
OnSegment(a, b, q) ==
    /\ Cross(vec2_sub(b, a), vec2_sub(q, a)) = 0
    /\ Min(a.x, b.x) <= q.x /\ q.x <= Max(a.x, b.x)
    /\ Min(a.y, b.y) <= q.y /\ q.y <= Max(a.y, b.y)

\* the closed segments a b and c d meet
SegmentsMeet(a, b, c, d) ==
    \/ /\ Sgn(Cross(vec2_sub(b, a), vec2_sub(c, a))) * Sgn(Cross(vec2_sub(b, a), vec2_sub(d, a))) < 0
       /\ Sgn(Cross(vec2_sub(d, c), vec2_sub(a, c))) * Sgn(Cross(vec2_sub(d, c), vec2_sub(b, c))) < 0
    \/ OnSegment(a, b, c) \/ OnSegment(a, b, d) \/ OnSegment(c, d, a) \/ OnSegment(c, d, b)

\* the chain c stays simple when q is appended
ChainOK(c, q) ==
    LET k == Len(c)
    IN  /\ \A j \in 1..k : c[j] # q
        /\ k >= 2 => /\ ~OnSegment(c[k - 1], c[k], q)
                     /\ ~OnSegment(c[k], q, c[k - 1])
                     /\ \A j \in 1..(k - 2) : ~SegmentsMeet(c[j], c[j + 1], c[k], q)

RECURSIVE Chains(_)
Chains(n) ==
    IF n = 1 THEN {<<q>> : q \in GridPoints}
    ELSE {Append(cq[1], cq[2]) : cq \in {cq \in Chains(n - 1) \X GridPoints : ChainOK(cq[1], cq[2])}}

\* the chain closes into a simple ring, clockwise
CloseOK(c) ==
    LET n == Len(c)
    IN  /\ ~OnSegment(c[n - 1], c[n], c[1])
        /\ ~OnSegment(c[n], c[1], c[n - 1])
        /\ ~OnSegment(c[1], c[2], c[n])
        /\ ~OnSegment(c[n], c[1], c[2])
        /\ \A j \in 2..(n - 2) : ~SegmentsMeet(c[j], c[j + 1], c[n], c[1])
        /\ Area2(c) > 0

GridRings(n) == {c \in Chains(n) : CloseOK(c)}

\* every simple clockwise ring of 3..maxn grid points, from every first point
GridPolygons(maxn) == UNION {GridRings(n) : n \in 3..maxn}

Translate(pts, dx, dy) == [k \in 1..Len(pts) |-> Vec2(pts[k].x + dx, pts[k].y + dy)]

\* a square around the translated grid, with a hole drawn on the grid
HoleShapes(maxn) ==
    {<<<<Vec2(0, 0), Vec2(GridMax + 2, 0), Vec2(GridMax + 2, GridMax + 2), Vec2(0, GridMax + 2)>>,
       Translate(g, 1, 1)>> : g \in GridPolygons(maxn)}

\* the shapes of test_triangulate and test_triangulate_holes, unrotated; the
\* shapes with half-integer coordinates are doubled
TestShapes ==
    { <<<<Vec2(-10, 5), Vec2(0, -5), Vec2(10, 5)>>>>,
      <<<<Vec2(2, 4), Vec2(3, 6), Vec2(0, 8)>>>>,
      <<<<Vec2(2, 4), Vec2(3, 6), Vec2(0, 8), Vec2(-2, 2)>>>>,
      <<<<Vec2(0, 0), Vec2(3, 0), Vec2(2, 1), Vec2(3, 2), Vec2(2, 3), Vec2(0, 2), Vec2(1, 1)>>>>,
      <<<<Vec2(0, 0), Vec2(1, 1), Vec2(2, 0), Vec2(2, 4), Vec2(1, 3), Vec2(0, 4)>>>>,
      <<<<Vec2(0, 2), Vec2(1, 2), Vec2(0, 1), Vec2(2, 0), Vec2(3, 1), Vec2(4, 0), Vec2(3, 2),
          Vec2(2, 1), Vec2(3, 3), Vec2(2, 4)>>>>,
      <<<<Vec2(0, 0), Vec2(1, 0), Vec2(2, 0), Vec2(3, 0), Vec2(3, 1), Vec2(3, 2), Vec2(3, 3),
          Vec2(2, 3), Vec2(1, 3), Vec2(0, 3), Vec2(0, 2), Vec2(0, 1)>>>>,
      <<<<Vec2(-11, 5), Vec2(0, -5), Vec2(10, 5)>>,
        <<Vec2(-5, 2), Vec2(0, -2), Vec2(4, 2)>>>>,
      <<<<Vec2(-10, -10), Vec2(10, -10), Vec2(10, 10), Vec2(-10, 10)>>,
        <<Vec2(-4, 2), Vec2(0, -2), Vec2(4, 2)>>>>,
      <<<<Vec2(-10, -10), Vec2(10, -10), Vec2(10, 10), Vec2(-10, 10)>>,
        <<Vec2(-8, -8), Vec2(-4, -8), Vec2(4, 8), Vec2(-8, 8)>>,
        <<Vec2(8, -8), Vec2(6, 7), Vec2(-2, -8)>>>>,
      <<<<Vec2(0, 0), Vec2(2, 2), Vec2(4, 2), Vec2(6, 0), Vec2(8, 0), Vec2(10, 0), Vec2(6, 8),
          Vec2(2, 8)>>,
        <<Vec2(4, 4), Vec2(6, 4), Vec2(5, 6)>>>> }

\* a crown of four spikes: its lowest notch is a Merge vertex whose two edges both
\* have a Merge vertex as helper
CrownShapes ==
    { <<<<Vec2(0, 0), Vec2(1, 2), Vec2(2, 0), Vec2(3, 4), Vec2(4, 0), Vec2(5, 2), Vec2(6, 0),
          Vec2(6, 6), Vec2(0, 6)>>>> }

ComplexShapes(maxn, maxhole) ==
    {<<g>> : g \in GridPolygons(maxn)} \cup HoleShapes(maxhole) \cup TestShapes \cup CrownShapes

\* test_shape: the position table is the main ring followed by the holes
RECURSIVE shape_positions(_, _)
shape_positions(shape, r) ==
    IF r = 0 THEN <<>> ELSE shape_positions(shape, r - 1) \o shape[r]

\* test_shape: the main ring takes its vertices in order, a hole in reverse order
shape_rings(shape) ==
    [r \in 1..Len(shape) |->
        LET from == Len(shape_positions(shape, r - 1))
            n == Len(shape[r])
        IN  [k \in 1..n |-> IF r = 1 THEN from + k ELSE from + n + 1 - k]]

ring_positions(pos, ring) == [k \in 1..Len(ring) |-> pos[ring[k]]]

\* a caller that gives every ring its vertices in order, the holes too
plain_rings(shape) ==
    [r \in 1..Len(shape) |->
        [k \in 1..Len(shape[r]) |-> Len(shape_positions(shape, r - 1)) + k]]

ReverseRing(g) == [k \in 1..Len(g) |-> g[Len(g) + 1 - k]]

\* malformed polygons: a counter-clockwise outer ring, or a square with a clockwise hole
\* (the rings of HoleShapes, taken in order)
MalformedShapes(maxn) == {<<ReverseRing(g)>> : g \in GridPolygons(maxn)} \cup HoleShapes(maxn)

-----------------------------------------------------------------------------
(* The state machine: test_shape's pipeline, one step per loop iteration *)

NoCirc == Circulator(0, "Forward")

NoArgs == [prev |-> Vec2(0, 0), current |-> Vec2(0, 0), next |-> Vec2(0, 0), y |-> 0]

NoRet == [applied |-> FALSE]

\* DecompositionContext::new(), Diagonals::new(), TriangulationContext::new()
Fresh ==
    /\ sorted_edges = <<>>
    /\ ev = 0
    /\ sweep_state = <<>>
    /\ helper = EmptyMap
    /\ diagonals = <<>>
    /\ last_type = "None"
    /\ up = NoCirc /\ down = NoCirc /\ m = NoCirc /\ o = NoCirc /\ p = NoCirc
    /\ vertex_stack = <<>>
    /\ i = 0
    /\ triangle_count = 0
    /\ output = <<>>
    /\ failure = ""
    /\ history = <<>>

\* a polygon with holes, about to be decomposed
InitComplex ==
    /\ mode = "complex"
    /\ pc = "decompose"
    /\ \E shape \in ComplexShapes(MaxN, MaxHoleN) :
        /\ positions = shape_positions(shape, Len(shape))
        /\ rings = shape_rings(shape)
    /\ sub_polygons = <<>>
    /\ sub = 0
    /\ Fresh
    /\ args = NoArgs /\ ret = NoRet

\* one y-monotone view, about to be triangulated; its position table has one
\* more entry, used by no point of the view
InitView ==
    /\ mode = "view"
    /\ pc = "triangulate"
    /\ \E g \in GridPolygons(MaxN) :
        /\ positions = <<Vec2(0, 0)>> \o g
        /\ rings = <<[k \in 1..Len(g) |-> k + 1]>>
    /\ is_y_monotone(positions, rings[1])
    /\ sub_polygons = rings
    /\ sub = 1
    /\ Fresh
    /\ args = NoArgs /\ ret = NoRet

Init == InitComplex \/ InitView

\* a malformed polygon about to be decomposed, or a view that is not y-monotone about
\* to be triangulated
InitMalformed ==
    /\ \/ /\ mode = "complex"
          /\ pc = "decompose"
          /\ \E shape \in MalformedShapes(MaxHoleN) :
              /\ positions = shape_positions(shape, Len(shape))
              /\ rings = plain_rings(shape)
          /\ sub_polygons = <<>>
          /\ sub = 0
       \/ /\ mode = "view"
          /\ pc = "triangulate"
          /\ \E g \in GridPolygons(MaxN) :
              /\ positions = <<Vec2(0, 0)>> \o g
              /\ rings = <<[k \in 1..Len(g) |-> k + 1]>>
          /\ ~is_y_monotone(positions, rings[1])
          /\ sub_polygons = rings
          /\ sub = 1
    /\ Fresh
    /\ args = NoArgs /\ ret = NoRet

DecompositionVars == <<sorted_edges, ev, sweep_state, helper, diagonals, last_type>>

TriangulationVars == <<up, down, m, o, p, vertex_stack, i, triangle_count, output>>

InputVars == <<mode, positions, rings, args, ret, history>>

\* the winding check without the test sub_poly != polygon_id(0)
BeginDecomposition_every_ring ==
    /\ pc = "decompose"
    /\ LET pts == all_point_ids(rings, Len(rings))
           bad == {r \in 1..Len(rings) :
                       compute_winding_order(ring_positions(positions, rings[r])) # "CounterClockwise"}
           first_bad == CHOOSE r \in bad : \A q \in bad : r <= q
       IN  IF bad # {}
           THEN /\ failure' = "WrongWindingOrder"
                /\ pc' = "panic"
                /\ helper' = helper_clear(helper)
                /\ sweep_state' = <<>>
                /\ sorted_edges' = all_point_ids(rings, first_bad - 1)
           ELSE /\ helper' = helper_clear(helper)
                /\ sweep_state' = <<>>
                /\ sorted_edges' = event_sort(positions, rings, pts, Len(pts))
                /\ pc' = "sweep"
                /\ UNCHANGED failure
    /\ UNCHANGED <<ev, diagonals, last_type, sub_polygons, sub>>
    /\ UNCHANGED TriangulationVars
    /\ UNCHANGED InputVars

\* lines 189-218: clear the helper, take the two vectors empty, check the holes' winding
\* while gathering the events, sort the events; the assertion on the winding fails with
\* the helper cleared and the rings before the offending one gathered
BeginDecomposition ==
    /\ pc = "decompose"
    /\ LET pts == all_point_ids(rings, Len(rings))
           bad == {r \in 2..Len(rings) :
                       compute_winding_order(ring_positions(positions, rings[r])) # "CounterClockwise"}
           first_bad == CHOOSE r \in bad : \A q \in bad : r <= q
       IN  IF bad # {}
           THEN /\ failure' = "WrongWindingOrder"
                /\ pc' = "panic"
                /\ helper' = helper_clear(helper)
                /\ sweep_state' = <<>>
                /\ sorted_edges' = all_point_ids(rings, first_bad - 1)
           ELSE /\ helper' = helper_clear(helper)
                /\ sweep_state' = <<>>
                /\ sorted_edges' = event_sort(positions, rings, pts, Len(pts))
                /\ pc' = "sweep"
                /\ UNCHANGED failure
    /\ UNCHANGED <<ev, diagonals, last_type, sub_polygons, sub>>
    /\ UNCHANGED TriangulationVars
    /\ UNCHANGED InputVars

\* the event of this iteration of `for &e in &sorted_edges`
CurrentEdge == sorted_edges[ev + 1]

CurrentVertex == vertex_position(positions, rings, CurrentEdge)

CurrentType ==
    get_vertex_type(vertex_position(positions, rings, poly_previous(rings, CurrentEdge)),
                    CurrentVertex,
                    vertex_position(positions, rings, poly_next(rings, CurrentEdge)))

AtEvent(type) ==
    /\ pc = "sweep"
    /\ ev < Len(sorted_edges)
    /\ CurrentType = type

\* what every event handler leaves alone
EventFrame ==
    /\ ev' = ev + 1
    /\ last_type' = CurrentType
    /\ UNCHANGED <<sorted_edges, sub_polygons, sub>>
    /\ UNCHANGED TriangulationVars
    /\ UNCHANGED InputVars

\* the failed search reported as an error value
SweepError ==
    /\ failure' = "no edge right of the current vertex"
    /\ pc' = "error"

\* find_right_of_current_vertex found no edge: the source panics; what the handler did
\* before the search stays done
SweepPanic ==
    /\ failure' = "no edge right of the current vertex"
    /\ pc' = "panic"

HandleStart ==
    /\ AtEvent("Start")
    /\ sweep_state' = sweep_add(positions, rings, sweep_state, CurrentEdge, CurrentVertex)
    /\ helper' = map_insert(helper, CurrentEdge, Helper(CurrentEdge, "Start"))
    /\ UNCHANGED <<diagonals, pc, failure>>
    /\ EventFrame

HandleEnd ==
    /\ AtEvent("End")
    /\ LET prev == poly_previous(rings, CurrentEdge)
       IN  /\ diagonals' = connect_with_helper_if_merge_vertex(CurrentEdge, prev, helper, diagonals)
           /\ sweep_state' = sweep_remove(sweep_state, prev)
    /\ UNCHANGED <<helper, pc, failure>>
    /\ EventFrame

HandleSplit ==
    /\ AtEvent("Split")
    /\ LET e == CurrentEdge
           ej == find_right_of_current_vertex(positions, rings, sweep_state, CurrentVertex)
       IN  IF ej = NoEdge
           THEN SweepPanic /\ UNCHANGED <<sweep_state, helper, diagonals>>
           ELSE IF ej \notin DOMAIN helper
           THEN /\ failure' = "the edge right of a Split vertex has no helper"
                /\ pc' = "panic"
                /\ UNCHANGED <<sweep_state, helper, diagonals>>
           ELSE /\ diagonals' = add_diagonal(diagonals, e, helper[ej].point)
                /\ sweep_state' = sweep_add(positions, rings, sweep_state, e, CurrentVertex)
                /\ helper' = map_insert(map_insert(helper, ej, Helper(e, "Split")),
                                        e, Helper(e, "Split"))
                /\ UNCHANGED <<pc, failure>>
    /\ EventFrame

HandleMerge ==
    /\ AtEvent("Merge")
    /\ LET e == CurrentEdge
           prev == poly_previous(rings, e)
           d1 == connect_with_helper_if_merge_vertex(e, prev, helper, diagonals)
           s1 == sweep_remove(sweep_state, prev)
           ej == find_right_of_current_vertex(positions, rings, s1, CurrentVertex)
       IN  IF ej = NoEdge
           THEN /\ SweepPanic
                /\ diagonals' = d1
                /\ sweep_state' = s1
                /\ UNCHANGED helper
           ELSE /\ diagonals' = connect_with_helper_if_merge_vertex(e, ej, helper, d1)
                /\ sweep_state' = s1
                /\ helper' = map_insert(helper, ej, Helper(e, "Merge"))
                /\ UNCHANGED <<pc, failure>>
    /\ EventFrame

HandleRight ==
    /\ AtEvent("Right")
    /\ LET e == CurrentEdge
           prev == poly_previous(rings, e)
       IN  /\ diagonals' = connect_with_helper_if_merge_vertex(e, prev, helper, diagonals)
           /\ sweep_state' = sweep_add(positions, rings, sweep_remove(sweep_state, prev), e,
                                       CurrentVertex)
           /\ helper' = map_insert(map_remove(helper, prev), e, Helper(e, "Right"))
    /\ UNCHANGED <<pc, failure>>
    /\ EventFrame

HandleLeft ==
    /\ AtEvent("Left")
    /\ LET e == CurrentEdge
           ej == find_right_of_current_vertex(positions, rings, sweep_state, CurrentVertex)
       IN  IF ej = NoEdge
           THEN SweepPanic /\ UNCHANGED <<sweep_state, helper, diagonals>>
           ELSE /\ diagonals' = connect_with_helper_if_merge_vertex(e, ej, helper, diagonals)
                /\ helper' = map_insert(helper, ej, Helper(e, "Left"))
                /\ UNCHANGED <<sweep_state, pc, failure>>
    /\ EventFrame

\* lines 281-285: the loop is over, the decomposition returns Ok
EndDecomposition ==
    /\ pc = "sweep"
    /\ ev = Len(sorted_edges)
    /\ pc' = "partition"
    /\ UNCHANGED <<sub_polygons, sub, failure>>
    /\ UNCHANGED DecompositionVars
    /\ UNCHANGED TriangulationVars
    /\ UNCHANGED InputVars

\* test_shape, lines 613-614
Partition ==
    /\ pc = "partition"
    /\ sub_polygons' = partition_polygon(positions, rings, diagonals)
    /\ sub' = 1
    /\ pc' = "triangulate"
    /\ UNCHANGED failure
    /\ UNCHANGED DecompositionVars
    /\ UNCHANGED TriangulationVars
    /\ UNCHANGED InputVars

\* the view being triangulated
View == sub_polygons[sub]

\* lines 387-469; in test_shape, after its assert!(is_y_monotone(..)) at line 627
BeginTriangulation ==
    /\ pc = "triangulate"
    /\ IF mode = "complex" /\ ~is_y_monotone(positions, View)
       THEN /\ failure' = "the view is not y-monotone"
            /\ pc' = "panic"
            /\ UNCHANGED <<up, down, m, o, p, vertex_stack, i, triangle_count>>
       ELSE IF \E k \in 1..3 : search_steps(positions, View)[k] > MaxIter
       THEN /\ failure' = "a search loop does not end"
            /\ pc' = "stuck"
            /\ UNCHANGED <<up, down, m, o, p, vertex_stack, i, triangle_count>>
       ELSE LET t == triangulation_setup(positions, View)
            IN  /\ up' = t.up /\ down' = t.down
                /\ m' = t.m /\ o' = t.o /\ p' = t.p
                /\ vertex_stack' = <<>>
                /\ i' = 0
                /\ triangle_count' = 0
                /\ pc' = "main_loop"
                /\ UNCHANGED failure
    /\ UNCHANGED <<output, sub_polygons, sub>>
    /\ UNCHANGED DecompositionVars
    /\ UNCHANGED InputVars

\* output.push_indices for each triangle of a step
Pushed(tris) == [k \in 1..Len(tris) |-> [sub |-> sub, ids |-> tris[k].ids,
                                         branch |-> tris[k].branch,
                                         direction |-> tris[k].direction]]

\* lines 471-548: one iteration of the main loop
TriangulationStep ==
    /\ pc = "main_loop"
    /\ i < MaxIter
    /\ LET m1 == swap_walkers(positions, View, m, o, down).m
           o1 == swap_walkers(positions, View, m, o, down).o
           switch == Len(vertex_stack) > 0
                     /\ m1.direction # vertex_stack[Len(vertex_stack)].direction
           same == same_chain(positions, View, vertex_stack, m1)
           tris == IF i < 2 THEN <<>>
                   ELSE IF switch THEN switch_triangles(View, vertex_stack, m1)
                   ELSE same.tris
           m2 == circ_next(View, m1)
       IN  /\ vertex_stack' = IF i < 2 THEN Append(vertex_stack, m1)
                              ELSE IF switch THEN <<p, m1>>
                              ELSE same.stack
           /\ output' = output \o Pushed(tris)
           /\ triangle_count' = triangle_count + Len(tris)
           /\ o' = o1
           /\ IF m1.point = down.point /\ o1.point = down.point
              THEN /\ m' = m1
                   /\ pc' = "end_triangulation"
                   /\ UNCHANGED <<i, p, failure>>
              ELSE /\ i' = i + 1
                   /\ p' = m1
                   /\ m' = m2
                   /\ IF is_below(circ_vertex(positions, View, m1), circ_vertex(positions, View, m2))
                      THEN /\ failure' = "debug_assert!(!is_below(vertex(p), vertex(m)))"
                           /\ pc' = "panic"
                      ELSE UNCHANGED <<pc, failure>>
    /\ UNCHANGED <<up, down, sub_polygons, sub>>
    /\ UNCHANGED DecompositionVars
    /\ UNCHANGED InputVars

\* lines 549-553: the final assertion, then test_shape's next view
EndTriangulation ==
    /\ pc = "end_triangulation"
    /\ IF triangle_count # Len(View) - 2
       THEN /\ failure' = "debug_assert_eq!(triangle_count, num_vertices - 2)"
            /\ pc' = "panic"
            /\ UNCHANGED sub
       ELSE /\ sub' = sub + 1
            /\ pc' = IF sub = Len(sub_polygons) THEN "done" ELSE "triangulate"
            /\ UNCHANGED failure
    /\ UNCHANGED <<up, down, m, o, p, vertex_stack, i, triangle_count, output, sub_polygons>>
    /\ UNCHANGED DecompositionVars
    /\ UNCHANGED InputVars

Next ==
    \/ BeginDecomposition
    \/ HandleStart
    \/ HandleEnd
    \/ HandleSplit
    \/ HandleMerge
    \/ HandleRight
    \/ HandleLeft
    \/ EndDecomposition
    \/ Partition
    \/ BeginTriangulation
    \/ TriangulationStep
    \/ EndTriangulation

Spec == Init /\ [][Next]_vars

\* a view whose points all have the same position
InitDegenerate ==
    /\ mode = "view"
    /\ pc = "triangulate"
    /\ \E n \in 3..MaxN : \E q \in GridPoints :
        /\ positions = <<Vec2(0, 0)>> \o [k \in 1..n |-> q]
        /\ rings = <<[k \in 1..n |-> k + 1]>>
    /\ sub_polygons = rings
    /\ sub = 1
    /\ Fresh
    /\ args = NoArgs /\ ret = NoRet

\* the states in which no step is left: the pipeline has returned or panicked, or a
\* loop was cut at MaxIter iterations
Halted == pc \in {"done", "panic", "stuck"} \/ (pc = "main_loop" /\ i >= MaxIter)

\* the calls run on without interruption, the code being synchronous and
\* single-threaded: weak fairness of Next, with ~Halted written for ENABLED <<Next>>_vars
SpecLive ==
    (Init \/ InitDegenerate) /\ [][Next]_vars /\ ([]<>Halted \/ []<><<Next>>_vars)

\* the same calls, on malformed inputs too
SpecMalformed == (Init \/ InitMalformed) /\ [][Next]_vars

\* a ring that crosses itself: the sweep finds no edge right of a Merge vertex, after
\* the handler has added a diagonal and removed an edge
CrossedShapes == {<<<<Vec2(1, 0), Vec2(0, 3), Vec2(1, 2), Vec2(3, 3), Vec2(0, 0)>>>>}

InitCrossed ==
    /\ mode = "complex"
    /\ pc = "decompose"
    /\ \E shape \in CrossedShapes :
        /\ positions = shape_positions(shape, Len(shape))
        /\ rings = plain_rings(shape)
    /\ sub_polygons = <<>>
    /\ sub = 0
    /\ Fresh
    /\ args = NoArgs /\ ret = NoRet

\* the same calls, on self-crossing rings too
SpecCrossed == (Init \/ InitMalformed \/ InitCrossed) /\ [][Next]_vars

\* polygons given to contexts that have already been used
ReuseShapes ==
    CrownShapes \cup
    { <<<<Vec2(-10, -10), Vec2(10, -10), Vec2(10, 10), Vec2(-10, 10)>>,
        <<Vec2(-8, -8), Vec2(-4, -8), Vec2(4, 8), Vec2(-8, 8)>>,
        <<Vec2(8, -8), Vec2(6, 7), Vec2(-2, -8)>>>> }

\* the caller of test_shape's pipeline keeps its DecompositionContext and its
\* TriangulationContext and runs the pipeline again, with new Diagonals and new
\* buffers: on one of ReuseShapes the second time, on its first polygon the third time.
\* The contexts are left as the last call left them.
CallAgain ==
    /\ mode = "complex"
    /\ pc = "done"
    /\ Len(history) < MaxCalls - 1
    /\ history' = Append(history, [positions |-> positions, rings |-> rings,
                                   diagonals |-> diagonals, output |-> output])
    /\ IF history = <<>>
       THEN \E shape \in ReuseShapes :
               /\ positions' = shape_positions(shape, Len(shape))
               /\ rings' = shape_rings(shape)
       ELSE /\ positions' = history[1].positions
            /\ rings' = history[1].rings
    /\ pc' = "decompose"
    /\ diagonals' = <<>>
    /\ output' = <<>>
    /\ sub_polygons' = <<>>
    /\ sub' = 0
    /\ ev' = 0
    /\ last_type' = "None"
    /\ UNCHANGED <<sorted_edges, sweep_state, helper>>
    /\ UNCHANGED <<up, down, m, o, p, vertex_stack, i, triangle_count>>
    /\ UNCHANGED <<mode, args, ret, failure>>

NextReuse == Next \/ CallAgain

SpecReuse == Init /\ [][NextReuse]_vars

-----------------------------------------------------------------------------
(* The predicates on their own: every triple of grid points, every line y *)

PredNames == {"prev", "current", "next"}

InitPred ==
    /\ mode = "pred"
    /\ pc = "call"
    /\ args \in [prev : PredPoints, current : PredPoints, next : PredPoints,
                 y : (-1)..(PredMax + 1)]
    /\ ret = NoRet
    /\ positions = <<>>
    /\ rings = <<>>
    /\ sub_polygons = <<>>
    /\ sub = 0
    /\ Fresh

PredFrame ==
    /\ pc' = "returned"
    /\ UNCHANGED <<mode, positions, rings, args, sub_polygons, sub, failure, history>>
    /\ UNCHANGED DecompositionVars
    /\ UNCHANGED TriangulationVars

\* is_below on every pair of the three points
CallIsBelow ==
    /\ pc = "call"
    /\ ret' = [applied |-> TRUE, fn |-> "is_below",
               val |-> [q \in PredNames \X PredNames |-> is_below(args[q[1]], args[q[2]])]]
    /\ PredFrame

CallGetVertexType ==
    /\ pc = "call"
    /\ ret' = [applied |-> TRUE, fn |-> "get_vertex_type",
               val |-> get_vertex_type(args.prev, args.current, args.next)]
    /\ PredFrame

\* the segment prev-current against the horizontal line at y
CallIntersect ==
    /\ pc = "call"
    /\ ret' = [applied |-> TRUE, fn |-> "intersect_segment_with_horizontal",
               val |-> intersect_segment_with_horizontal(args.prev, args.current, args.y)]
    /\ PredFrame

\* the comparator of the event sort on (prev, current)
CallEventCmp ==
    /\ pc = "call"
    /\ ret' = [applied |-> TRUE, fn |-> "event_cmp",
               val |-> event_cmp(args.prev, args.current)]
    /\ PredFrame

NextPred == CallIsBelow \/ CallGetVertexType \/ CallIntersect \/ CallEventCmp

SpecPred == InitPred /\ [][NextPred]_vars

Returned(fn) == mode = "pred" /\ pc = "returned" /\ ret.fn = fn

-----------------------------------------------------------------------------
(* is_y_monotone on its own: every simple ring of the grid, in either winding *)

InitMono ==
    /\ mode = "mono"
    /\ pc = "call"
    /\ \E g \in GridPolygons(MaxN) :
        /\ positions \in {<<Vec2(0, 0)>> \o g, <<Vec2(0, 0)>> \o ReverseRing(g)}
        /\ rings = <<[k \in 1..Len(g) |-> k + 1]>>
    /\ args = NoArgs /\ ret = NoRet
    /\ sub_polygons = rings
    /\ sub = 1
    /\ Fresh

CallIsYMonotone ==
    /\ mode = "mono"
    /\ pc = "call"
    /\ ret' = [applied |-> TRUE, fn |-> "is_y_monotone", val |-> is_y_monotone(positions, View)]
    /\ PredFrame

SpecMono == InitMono /\ [][CallIsYMonotone]_vars

-----------------------------------------------------------------------------
(* Geometry of the results *)

\* twice the signed area of the triangle a b c
TriArea2(a, b, c) == Cross(vec2_sub(b, a), vec2_sub(c, a))


\* the positions of an emitted triangle
TriPoints(ids) == <<positions[ids[1]], positions[ids[2]], positions[ids[3]]>>

\* a triangle of positive area, given with positive orientation
Oriented(t) == IF TriArea2(t[1], t[2], t[3]) > 0 THEN t ELSE <<t[1], t[3], t[2]>>

\* an edge of a has all of b on its outer side
Separates(a, b) ==
    \E k \in 1..3 :
        \A j \in 1..3 : Cross(vec2_sub(a[(k % 3) + 1], a[k]), vec2_sub(b[j], a[k])) <= 0

\* the interiors of the triangles t and u meet
TrianglesOverlap(t, u) ==
    /\ TriArea2(t[1], t[2], t[3]) # 0
    /\ TriArea2(u[1], u[2], u[3]) # 0
    /\ ~Separates(Oriented(t), Oriented(u))
    /\ ~Separates(Oriented(u), Oriented(t))

RECURSIVE OutputArea2(_)
OutputArea2(k) ==
    IF k = 0 THEN 0
    ELSE OutputArea2(k - 1)
         + Abs(TriArea2(positions[output[k].ids[1]], positions[output[k].ids[2]],
                        positions[output[k].ids[3]]))

\* twice the area of the polygon: the rings' signed areas, the holes' being negative
RECURSIVE RingsArea2(_)
RingsArea2(r) ==
    IF r = 0 THEN 0 ELSE RingsArea2(r - 1) + Area2(ring_positions(positions, rings[r]))

\* q is in the closed triangle t and is none of its corners
InClosed(t, q) ==
    LET u == Oriented(t)
    IN  /\ \A k \in 1..3 : Cross(vec2_sub(u[(k % 3) + 1], u[k]), vec2_sub(q, u[k])) >= 0
        /\ q \notin {t[1], t[2], t[3]}

RemoveAt(seq, k) == [j \in 1..(Len(seq) - 1) |-> IF j < k THEN seq[j] ELSE seq[j + 1]]

\* a reference triangulation of a simple ring of positions, by cutting ears
RECURSIVE EarTriangles(_)
EarTriangles(pts) ==
    IF Len(pts) < 3 THEN {}
    ELSE LET n == Len(pts)
             s == Sgn(Area2(pts))
             tri(k) == <<pts[IF k = 1 THEN n ELSE k - 1], pts[k], pts[IF k = n THEN 1 ELSE k + 1]>>
             ears == {k \in 1..n :
                         /\ Sgn(TriArea2(tri(k)[1], tri(k)[2], tri(k)[3])) = s
                         /\ \A j \in 1..n : ~InClosed(tri(k), pts[j])}
         IN  IF n = 3 \/ ears = {} THEN {pts}
             ELSE LET k == CHOOSE k \in ears : \A j \in ears : k <= j
                  IN  {tri(k)} \cup EarTriangles(RemoveAt(pts, k))

\* the triangle t meets the interior of a hole
OverlapsHole(t) ==
    \E r \in 2..Len(rings) :
        \E u \in EarTriangles(ring_positions(positions, rings[r])) : TrianglesOverlap(t, u)

\* the triangles pushed for view s
OutputOf(s) == {k \in 1..Len(output) : output[k].sub = s}

-----------------------------------------------------------------------------
(* The claims *)

\* C1: when the main loop of y_monotone_triangulation ends on a y-monotone view of
\* n points, exactly n - 2 triangles have been pushed for it (and counted), so the
\* final assertion holds.
C1_TriangleCount ==
    pc = "end_triangulation" =>
        /\ triangle_count = Len(View) - 2
        /\ Cardinality(OutputOf(sub)) = Len(View) - 2

\* a view of five points triangulated with a chain switch and a same-chain step
C1_Witness ==
    /\ pc = "end_triangulation"
    /\ mode = "view"
    /\ Len(View) = 5
    /\ triangle_count = 3
    /\ \E k \in OutputOf(sub) : output[k].branch = "switch"
    /\ \E k \in OutputOf(sub) : output[k].branch = "same"

\* C2: for a valid polygon with holes, the triangles emitted over all sub-polygons
\* are pairwise non-overlapping, their areas sum to the outer area minus the hole
\* areas, and none overlaps the interior of a hole.
C2_ExactCover ==
    (mode = "complex" /\ pc = "done") =>
        /\ OutputArea2(Len(output)) = RingsArea2(Len(rings))
        /\ \A j, k \in 1..Len(output) :
              j < k => ~TrianglesOverlap(TriPoints(output[j].ids), TriPoints(output[k].ids))
        /\ \A k \in 1..Len(output) : ~OverlapsHole(TriPoints(output[k].ids))

\* a polygon with a hole, cut by diagonals into several pieces, fully triangulated
C2_Witness ==
    /\ mode = "complex" /\ pc = "done"
    /\ Len(rings) >= 2
    /\ Len(sub_polygons) >= 2
    /\ Len(output) >= 6
    /\ OutputArea2(Len(output)) = RingsArea2(Len(rings))

\* C3: for a valid polygon, every sub-polygon obtained by partitioning along the
\* diagonals of the decomposition is y-monotone (has no Split or Merge vertex).
C3_PiecesMonotone ==
    (mode = "complex" /\ pc \in {"triangulate", "main_loop", "end_triangulation", "done"}) =>
        \A s \in 1..Len(sub_polygons) : is_y_monotone(positions, sub_polygons[s])

\* a polygon that is not y-monotone itself, cut along its diagonals
C3_Witness ==
    /\ mode = "complex" /\ pc = "triangulate"
    /\ Len(diagonals) >= 2
    /\ Len(sub_polygons) >= 3
    /\ ~is_y_monotone(positions, rings[1])
    /\ \A s \in 1..Len(sub_polygons) : is_y_monotone(positions, sub_polygons[s])

\* C4: for a valid polygon with V points and H holes the pipeline runs to its end
\* and emits V + 2H - 2 triangles in total.
C4_TotalCount ==
    mode = "complex" =>
        /\ pc # "panic"
        /\ pc = "done" => Len(output) = Len(positions) + 2 * (Len(rings) - 1) - 2

\* the square with two holes: 11 points, 2 holes, 13 triangles
C4_Witness ==
    /\ mode = "complex" /\ pc = "done"
    /\ Len(rings) = 3
    /\ Len(positions) = 11
    /\ Len(output) = 13

\* C5: on inputs whose points have distinct vertices and positions, every triangle
\* pushed, on a chain switch or on the same chain, has three distinct indices.
C5_DistinctIndices ==
    \A k \in 1..Len(output) :
        /\ output[k].ids[1] # output[k].ids[2]
        /\ output[k].ids[1] # output[k].ids[3]
        /\ output[k].ids[2] # output[k].ids[3]

\* triangles of both branches have been pushed
C5_Witness ==
    /\ \E k \in 1..Len(output) : output[k].branch = "switch"
    /\ \E k \in 1..Len(output) : output[k].branch = "same"
    /\ \A j, k \in 1..Len(positions) : j # k => positions[j] # positions[k]
    /\ mode = "complex"

\* C6: every VertexId of a pushed triangle is the vertex of a point of the view it
\* was pushed for, and so an index of the position table.
C6_VertexConservation ==
    \A k \in 1..Len(output) :
        \A j \in 1..3 :
            /\ output[k].ids[j] \in Range(sub_polygons[output[k].sub])
            /\ output[k].ids[j] \in DOMAIN positions

\* a view whose vertices are not its point indices, with triangles of both branches
C6_Witness ==
    /\ mode = "view" /\ pc = "end_triangulation"
    /\ \A k \in 1..Len(View) : View[k] # k
    /\ \E k \in 1..Len(output) : output[k].branch = "switch"
    /\ \E k \in 1..Len(output) : output[k].branch = "same"

\* C7: is_below is a strict total order by y, then x: irreflexive, transitive, and
\* exactly one of is_below(a, b), is_below(b, a) holds for points that differ; it
\* holds exactly when a.y > b.y, or a.y = b.y and a.x > b.x.
C7_IsBelowStrictTotalOrder ==
    Returned("is_below") =>
        /\ \A a \in PredNames : ~ret.val[<<a, a>>]
        /\ \A a, b, c \in PredNames :
              (ret.val[<<a, b>>] /\ ret.val[<<b, c>>]) => ret.val[<<a, c>>]
        /\ \A a, b \in PredNames :
              args[a] # args[b] => (ret.val[<<a, b>>] # ret.val[<<b, a>>])
        /\ \A a, b \in PredNames :
              ret.val[<<a, b>>] <=> (\/ args[a].y > args[b].y
                                     \/ args[a].y = args[b].y /\ args[a].x > args[b].x)

\* three points on one horizontal line, ordered by x alone
C7_Witness ==
    /\ Returned("is_below")
    /\ args.prev.y = args.current.y /\ args.current.y = args.next.y
    /\ ret.val[<<"prev", "current">>] /\ ret.val[<<"current", "next">>]
    /\ ret.val[<<"prev", "next">>]

\* the angle at current, as get_vertex_type measures it
Theta == directed_angle(vec2_sub(args.prev, args.current), vec2_sub(args.next, args.current))

BelowBoth == is_below(args.current, args.prev) /\ is_below(args.current, args.next)

AboveBoth == is_below(args.prev, args.current) /\ is_below(args.next, args.current)

BelowNeither == ~is_below(args.current, args.prev) /\ ~is_below(args.current, args.next)

PrevBeforeNext ==
    \/ args.prev.y < args.next.y
    \/ args.prev.y = args.next.y /\ args.prev.x < args.next.x

\* C8 as stated: Split and Start are the types of a current that is above both
\* of its neighbours; every other current that is not below both is Right or Left.
C8_Original ==
    Returned("get_vertex_type") =>
        /\ ret.val = "Merge" <=> (BelowBoth /\ 0 < Theta /\ Theta < PI)
        /\ ret.val = "End" <=> (BelowBoth /\ (Theta = 0 \/ Theta >= PI))
        /\ ret.val = "Split" <=> (AboveBoth /\ 0 < Theta /\ Theta < PI)
        /\ ret.val = "Start" <=> (AboveBoth /\ (Theta = 0 \/ Theta >= PI))
        /\ ret.val = "Right" <=> (~BelowBoth /\ ~AboveBoth /\ PrevBeforeNext)
        /\ ret.val = "Left" <=> (~BelowBoth /\ ~AboveBoth /\ ~PrevBeforeNext)

\* C8, amended: Split and Start are the types of a current that is below neither
\* neighbour (above it or at the same position); Merge and End those of a current
\* below both; Right and Left those of a current below exactly one neighbour, Right
\* when prev comes before next by y, then x.  Exactly one type is returned.
C8_VertexType ==
    Returned("get_vertex_type") =>
        /\ ret.val \in {"Start", "End", "Split", "Merge", "Left", "Right"}
        /\ ret.val = "Merge" <=> (BelowBoth /\ 0 < Theta /\ Theta < PI)
        /\ ret.val = "End" <=> (BelowBoth /\ (Theta = 0 \/ Theta >= PI))
        /\ ret.val = "Split" <=> (BelowNeither /\ 0 < Theta /\ Theta < PI)
        /\ ret.val = "Start" <=> (BelowNeither /\ (Theta = 0 \/ Theta >= PI))
        /\ ret.val = "Right" <=> (~BelowBoth /\ ~BelowNeither /\ PrevBeforeNext)
        /\ ret.val = "Left" <=> (~BelowBoth /\ ~BelowNeither /\ ~PrevBeforeNext)

\* a current at the position of prev and above next: Start, where C8 as stated says Right
C8_Witness ==
    /\ Returned("get_vertex_type")
    /\ args.prev = args.current
    /\ is_below(args.next, args.current)
    /\ PrevBeforeNext
    /\ ret.val = "Start"

\* C9: the orders of the system are the order of is_below, ties in y included: the
\* events are sorted top to bottom by is_below, a vertex between its neighbours is
\* Right exactly when next is below prev, up and down are the extremes of the view
\* under is_below, and the walker never moves to a point above the previous one.
C9_SingleOrder ==
    /\ pc = "sweep" =>
          \A j, k \in 1..Len(sorted_edges) :
              j < k => is_below(vertex_position(positions, rings, sorted_edges[k]),
                                vertex_position(positions, rings, sorted_edges[j]))
    /\ (pc = "sweep" /\ ev > 0 /\ last_type \in {"Left", "Right"}) =>
          (last_type = "Right" <=>
              is_below(vertex_position(positions, rings, poly_next(rings, sorted_edges[ev])),
                       vertex_position(positions, rings, poly_previous(rings, sorted_edges[ev]))))
    /\ pc = "main_loop" =>
          /\ \A k \in 1..Len(View) :
                /\ ~is_below(circ_vertex(positions, View, up), positions[View[k]])
                /\ ~is_below(positions[View[k]], circ_vertex(positions, View, down))
          /\ i > 0 => ~is_below(circ_vertex(positions, View, p), circ_vertex(positions, View, m))

\* two events on one horizontal line, sorted by x, the second one Right or Left
C9_Witness ==
    /\ pc = "sweep" /\ ev >= 2
    /\ last_type \in {"Left", "Right"}
    /\ vertex_position(positions, rings, sorted_edges[ev]).y
         = vertex_position(positions, rings, sorted_edges[ev - 1]).y
    /\ vertex_position(positions, rings, sorted_edges[ev]).x
         > vertex_position(positions, rings, sorted_edges[ev - 1]).x

\* the distance of the f32 value v from the exact fraction num / den, den > 0, is at
\* most Pow2(F32Tolerance) / 2^FracBits; the difference is taken in two halves of
\* FracBits / 2 bits
F32Tolerance == 12

CloseTo(v, num, den) ==
    LET half == Pow2(FracBits \div 2)
        hi == (v.fp \div half) * den - (num % den) * half
        lo == (v.fp % half) * den
    IN  /\ v.ip = num \div den
        /\ Abs(hi) <= 2 * den
        /\ Abs(hi * half + lo) <= den * Pow2(F32Tolerance)
        /\ num % den = 0 => v.fp = 0

\* C10: on a horizontal segment the result is max(a.x, b.x) for every y; otherwise it
\* is the x at which the line through a and b meets the line at y, to the precision
\* of f32; no division by 0.
C10_Intersect ==
    Returned("intersect_segment_with_horizontal") =>
        LET vx == args.current.x - args.prev.x
            vy == args.current.y - args.prev.y
            num == args.prev.x * vy + (args.y - args.prev.y) * vx
        IN  /\ ret.val.cls = "finite"
            /\ vy = 0 => ret.val = F32(Max(args.prev.x, args.current.x))
            /\ vy > 0 => CloseTo(ret.val, num, vy)
            /\ vy < 0 => CloseTo(ret.val, -num, -vy)

\* a horizontal segment that the line at y does not meet: the right end all the same
C10_Witness ==
    /\ Returned("intersect_segment_with_horizontal")
    /\ args.prev.y = args.current.y
    /\ args.y # args.prev.y
    /\ args.prev.x < args.current.x
    /\ ret.val = F32(args.current.x)

-----------------------------------------------------------------------------
(* C11 *)

\* the type of point pt of the view, from its ring predecessor and successor
TypeInView(pt) ==
    LET n == Len(View)
    IN  get_vertex_type(positions[View[((pt + n - 2) % n) + 1]],
                        positions[View[pt]],
                        positions[View[(pt % n) + 1]])

\* C11: is_y_monotone returns false if and only if some point of the polygon is
\* Split or Merge, and true when every point is Start, End, Left or Right.
C11_IsYMonotone ==
    (mode = "mono" /\ pc = "returned") =>
        /\ ret.val = FALSE <=> \E pt \in 1..Len(View) : TypeInView(pt) \in {"Split", "Merge"}
        /\ (\A pt \in 1..Len(View) : TypeInView(pt) \in {"Start", "End", "Left", "Right"})
              => ret.val = TRUE

\* false for a polygon whose only Split or Merge point is its first point
C11_Witness ==
    /\ mode = "mono" /\ pc = "returned"
    /\ ret.val = FALSE
    /\ TypeInView(1) \in {"Split", "Merge"}
    /\ \A pt \in 2..Len(View) : TypeInView(pt) \notin {"Split", "Merge"}

-----------------------------------------------------------------------------
(* C12 *)

\* the type of point e of the polygon
vertex_type_of(e) ==
    get_vertex_type(vertex_position(positions, rings, poly_previous(rings, e)),
                    vertex_position(positions, rings, e),
                    vertex_position(positions, rings, poly_next(rings, e)))

\* a vertex is about to be processed
AtVertex == mode = "complex" /\ pc = "sweep" /\ ev < Len(sorted_edges)

\* the edge e -> next(e) meets the horizontal line at y
CrossesLine(e, y) ==
    LET a == vertex_position(positions, rings, e)
        b == vertex_position(positions, rings, poly_next(rings, e))
    IN  Min(a.y, b.y) <= y /\ y <= Max(a.y, b.y)

\* C12: when a vertex is processed, every edge of the sweep state crosses the
\* horizontal line through it, and the x-intercepts of the sweep state at that y
\* are in non-decreasing order.
C12_SweepConsistent ==
    AtVertex =>
        /\ \A k \in 1..Len(sweep_state) : CrossesLine(sweep_state[k], CurrentVertex.y)
        /\ \A k \in 1..(Len(sweep_state) - 1) :
              ~f32_less(sweep_key(positions, rings, sweep_state[k + 1], CurrentVertex.y),
                        sweep_key(positions, rings, sweep_state[k], CurrentVertex.y))

\* two edges or more, one of them slanted and entered above the current line, and the
\* event before this one did not sort the state
C12_Witness ==
    /\ AtVertex
    /\ Len(sweep_state) >= 2
    /\ last_type \in {"End", "Merge", "Left"}
    /\ \E k \in 1..Len(sweep_state) :
          LET a == vertex_position(positions, rings, sweep_state[k])
              b == vertex_position(positions, rings, poly_next(rings, sweep_state[k]))
          IN  a.x # b.x /\ a.y < CurrentVertex.y /\ CurrentVertex.y < b.y

-----------------------------------------------------------------------------
(* C13 *)

\* y_monotone_polygon_decomposition has returned Ok
DecompositionReturned == mode = "complex" /\ pc = "partition"

\* C13 as stated: at the return of the decomposition of a valid polygon the helper
\* table and the sweep state are both empty.
C13_Original ==
    DecompositionReturned => (helper = EmptyMap /\ sweep_state = <<>>)

\* C13, amended: at the return of the decomposition of a valid polygon the sweep
\* state is empty and the helper table is not: it still holds the entries of the
\* edges that ended at an End or a Merge vertex.
C13_SweepEmptyHelperKept ==
    DecompositionReturned =>
        /\ sweep_state = <<>>
        /\ helper # EmptyMap
        /\ \A e \in UNION {{<<r, k>> : k \in 1..Len(rings[r])} : r \in 1..Len(rings)} :
              vertex_type_of(e) \in {"End", "Merge"} => poly_previous(rings, e) \in DOMAIN helper

\* a polygon with a hole has been decomposed, with its Split and Merge events: the
\* helper table still has an entry written at a Split vertex
C13_Witness ==
    /\ DecompositionReturned
    /\ Len(rings) > 1
    /\ sweep_state = <<>>
    /\ Len(diagonals) >= 2
    /\ \E e \in DOMAIN helper : helper[e].type = "Split"

-----------------------------------------------------------------------------
(* C14 *)

\* C14: add_diagonal is never called twice with the same unordered pair of points
\* during a decomposition, the two calls of one Merge vertex included.
C14_NoDuplicateDiagonal ==
    mode = "complex" =>
        \A j, k \in 1..Len(diagonals) :
            j < k => {diagonals[j][1], diagonals[j][2]} # {diagonals[k][1], diagonals[k][2]}

\* a Merge vertex has added two diagonals, one after the other
C14_Witness ==
    /\ DecompositionReturned
    /\ \E k \in 1..(Len(diagonals) - 1) :
          /\ diagonals[k][2] = diagonals[k + 1][2]
          /\ vertex_type_of(diagonals[k][2]) = "Merge"
          /\ diagonals[k][1] # diagonals[k + 1][1]

-----------------------------------------------------------------------------
(* C15 *)

\* the outer ring is clockwise and every hole counter-clockwise
ValidInput ==
    /\ mode \in {"complex", "view"}
    /\ compute_winding_order(ring_positions(positions, rings[1])) = "Clockwise"
    /\ \A r \in 2..Len(rings) :
          compute_winding_order(ring_positions(positions, rings[r])) = "CounterClockwise"

\* the event processed last, and the sweep state without it
LastEdge == sorted_edges[ev]

OtherEdges == sweep_remove(sweep_state, LastEdge)

\* the edge that the last event, a Split, Merge or Left vertex, found on its right: the
\* edge whose helper the event has become
FoundEdges == {k \in DOMAIN helper \ {LastEdge} : helper[k] = Helper(LastEdge, last_type)}

InterceptNotLeft(e) ==
    LET cur == vertex_position(positions, rings, LastEdge)
    IN  ~f32_less(sweep_key(positions, rings, e, cur.y), F32(cur.x))

\* C15: on a valid polygon the edge found at a Split, Merge or Left vertex is the
\* first edge of the sweep state whose x-intercept at the current y is >= the current
\* x, and the search never fails.
C15_FindRight ==
    (mode = "complex" /\ ValidInput) =>
        /\ failure # "no edge right of the current vertex"
        /\ (pc = "sweep" /\ ev > 0 /\ last_type \in {"Split", "Merge", "Left"}) =>
              \E k \in 1..Len(OtherEdges) :
                  /\ FoundEdges = {OtherEdges[k]}
                  /\ InterceptNotLeft(OtherEdges[k])
                  /\ \A j \in 1..(k - 1) : ~InterceptNotLeft(OtherEdges[j])

\* a Merge vertex of a valid polygon with two edges on its right has found the first
C15_Witness ==
    /\ mode = "complex" /\ ValidInput
    /\ pc = "sweep" /\ ev > 0 /\ last_type = "Merge"
    /\ \E k \in 1..Len(OtherEdges) :
          /\ FoundEdges = {OtherEdges[k]}
          /\ \E j \in (k + 1)..Len(OtherEdges) : InterceptNotLeft(OtherEdges[j])

-----------------------------------------------------------------------------
(* C16 *)

\* some ring after the first is not counter-clockwise
WrongHole ==
    \E r \in 2..Len(rings) :
        compute_winding_order(ring_positions(positions, rings[r])) # "CounterClockwise"

\* C16: the winding of every ring but the first is checked and must be
\* counter-clockwise; a hole of another winding stops the call with the
\* WrongWindingOrder failure before any vertex is swept or any diagonal added, and
\* the winding of the outer ring never stops it.
C16_WindingCheck ==
    mode = "complex" =>
        /\ (WrongHole /\ pc # "decompose") =>
              /\ pc = "panic" /\ failure = "WrongWindingOrder"
              /\ ev = 0 /\ last_type = "None"
              /\ sweep_state = <<>> /\ helper = EmptyMap
              /\ diagonals = <<>>
        /\ failure = "WrongWindingOrder" => WrongHole

\* a clockwise hole in a clockwise square has stopped the call
C16_Witness ==
    /\ mode = "complex" /\ pc = "panic" /\ failure = "WrongWindingOrder"
    /\ Len(rings) = 2
    /\ compute_winding_order(ring_positions(positions, rings[1])) = "Clockwise"
    /\ compute_winding_order(ring_positions(positions, rings[2])) = "Clockwise"
    /\ diagonals = <<>> /\ ev = 0

-----------------------------------------------------------------------------
(* C17 *)

\* C17 as stated: every failure of the decomposition and of the triangulation
\* reaches the caller as an error value.
C17_Original ==
    failure # "" => pc = "error"

\* C17, amended: no failure of the decomposition or of the triangulation is
\* returned as an error value: the call panics, and nothing runs after the panic
\* (nothing is retried); a call that returns returns Ok.
C17_FailuresPanic ==
    mode \in {"complex", "view"} =>
        /\ failure # "" <=> pc = "panic"
        /\ pc # "error"
        /\ pc = "panic" => ~ENABLED Next

\* the decomposition of a counter-clockwise outer ring has panicked in
\* find_right_of_current_vertex, at a vertex classified Split
C17_Witness ==
    /\ mode = "complex" /\ pc = "panic"
    /\ failure = "no edge right of the current vertex"
    /\ compute_winding_order(ring_positions(positions, rings[1])) = "CounterClockwise"
    /\ last_type = "Split"
    /\ diagonals = <<>>

-----------------------------------------------------------------------------
(* C18 *)

\* test_triangulate_holes, "Square with triangle hole": test_shape reverses the hole
SquareWithTriangleHole ==
    /\ mode = "complex"
    /\ positions = <<Vec2(-10, -10), Vec2(10, -10), Vec2(10, 10), Vec2(-10, 10),
                     Vec2(-4, 2), Vec2(0, -2), Vec2(4, 2)>>
    /\ rings = <<<<1, 2, 3, 4>>, <<7, 6, 5>>>>

\* C18 as stated: the square with the triangular hole is triangulated into 8 triangles.
C18_Original ==
    (SquareWithTriangleHole /\ pc = "done") => Len(output) = 8

\* C18, amended: the square with the triangular hole, the hole counter-clockwise, is
\* triangulated into 7 triangles (V + 2H - 2 with V = 7 and H = 1), and the run
\* reaches its end.
C18_SevenTriangles ==
    SquareWithTriangleHole =>
        /\ pc # "panic"
        /\ pc = "done" => Len(output) = 7

\* the run on the square with the triangular hole is over
C18_Witness ==
    /\ SquareWithTriangleHole
    /\ ValidInput
    /\ pc = "done"
    /\ Len(output) = 7
    /\ Len(diagonals) = 2

-----------------------------------------------------------------------------
(* C19 *)

\* test_triangulate, the arrow, unrotated
Arrow ==
    /\ mode = "complex"
    /\ positions = <<Vec2(0, 0), Vec2(3, 0), Vec2(2, 1), Vec2(3, 2), Vec2(2, 3), Vec2(0, 2),
                     Vec2(1, 1)>>
    /\ rings = <<<<1, 2, 3, 4, 5, 6, 7>>>>

\* C19 as stated: the decomposition of the unrotated arrow adds at least one diagonal.
C19_Original ==
    (Arrow /\ pc = "partition") => Len(diagonals) >= 1

\* C19, amended: the decomposition of the unrotated arrow adds no diagonal: none of
\* its points is Split or Merge, the polygon is y-monotone as it is, and it is
\* triangulated as one piece, into 5 triangles.
C19_NoDiagonal ==
    Arrow =>
        /\ diagonals = <<>>
        /\ \A k \in 1..7 : vertex_type_of(<<1, k>>) \notin {"Split", "Merge"}
        /\ pc # "panic"
        /\ pc = "done" => (Len(sub_polygons) = 1 /\ Len(output) = 5)

\* the decomposition of the arrow has returned, every event processed
C19_Witness ==
    /\ Arrow
    /\ pc = "partition"
    /\ ev = 7
    /\ diagonals = <<>>

-----------------------------------------------------------------------------
(* C20 *)

\* the calls made before this one on the same polygon
EarlierCalls == {k \in 1..Len(history) : history[k].positions = positions
                                          /\ history[k].rings = rings}

\* C20: a call on contexts that earlier calls have used adds the same diagonals and
\* pushes the same triangles in the same order as the call on the same polygon made
\* with fresh contexts; each call starts its sweep with an empty helper table and an
\* empty sweep state, and each triangulation starts with an empty vertex stack.
C20_NoStateCarried ==
    mode = "complex" =>
        /\ pc \in {"partition", "triangulate", "main_loop", "end_triangulation", "done"} =>
              \A k \in EarlierCalls : history[k].diagonals = diagonals
        /\ pc = "done" => \A k \in EarlierCalls : history[k].output = output
        /\ (pc = "sweep" /\ ev = 0) => (helper = EmptyMap /\ sweep_state = <<>>)
        /\ (pc = "main_loop" /\ i = 0) => vertex_stack = <<>>

\* the first polygon has been processed again, after a polygon with holes that left
\* entries in the helper table, with the same diagonals and triangles as the first time
C20_Witness ==
    /\ mode = "complex" /\ pc = "done"
    /\ Len(history) = 2
    /\ history[1].positions = positions /\ history[1].rings = rings
    /\ history[2].positions # positions
    /\ Len(history[2].rings) = 3
    /\ Len(diagonals) >= 2
    /\ history[1].diagonals = diagonals
    /\ history[1].output = output

-----------------------------------------------------------------------------
(* C21 *)

\* all the points of the view being triangulated are at one position
AllCoincide == \A k \in 1..Len(View) : positions[View[k]] = positions[View[1]]

InTriangulation == pc \in {"triangulate", "main_loop", "end_triangulation", "stuck"}

C21_Safe ==
    /\ pc # "stuck"
    /\ pc = "triangulate" =>
          \A k \in 1..3 : search_steps(positions, View)[k] <= Len(View)
    /\ pc = "main_loop" => i < Len(View)
    /\ (InTriangulation /\ ~AllCoincide) => failure = ""
    /\ (pc = "panic" /\ sub > 0) => AllCoincide

\* C21: on every y-monotone view of at least 3 points, from every first point, each of
\* the three search loops ends within one turn of the ring (also when all the points
\* coincide), the main loop makes fewer iterations than the view has points and
\* then stops with m and o on down, and nothing panics and no assertion fails.
C21_RunsToCompletion ==
    /\ []C21_Safe
    /\ (pc = "triangulate") ~> (pc = "end_triangulation" /\ m.point = down.point
                                                        /\ o.point = down.point)

\* a view with a horizontal top edge and a horizontal bottom edge, whose first point
\* is neither the topmost nor the bottommost, has been triangulated
C21_Witness ==
    /\ mode = "view" /\ pc = "end_triangulation"
    /\ failure = ""
    /\ ~AllCoincide
    /\ i = Len(View) - 1
    /\ up.point # 1 /\ down.point # 1
    /\ circ_vertex(positions, View, circ_next(View, Circulator(up.point, "Forward"))).y
         = circ_vertex(positions, View, up).y
    /\ circ_vertex(positions, View, circ_next(View, Circulator(down.point, "Forward"))).y
         = circ_vertex(positions, View, down).y

-----------------------------------------------------------------------------
(* C22 *)

\* the positions of the points of the view being triangulated
ViewPoints == {positions[View[k]] : k \in 1..Len(View)}

\* the view has a horizontal edge leaving or reaching the point of c
HorizontalAt(c) ==
    \/ circ_vertex(positions, View, circ_next(View, c)).y = circ_vertex(positions, View, c).y
    \/ circ_vertex(positions, View, circ_previous(View, c)).y = circ_vertex(positions, View, c).y

\* C22: after phase (a), on every y-monotone view and from every first point, no point
\* of the ring is above up and no point of the ring is below down under is_below,
\* horizontal top and bottom edges included.
C22_UpDownExtreme ==
    (pc \in {"main_loop", "end_triangulation"} /\ ~AllCoincide) =>
        /\ \A q \in ViewPoints : ~is_below(circ_vertex(positions, View, up), q)
        /\ \A q \in ViewPoints : ~is_below(q, circ_vertex(positions, View, down))

\* phase (a) has just ended on a view whose top edge and bottom edge are horizontal and
\* whose first point is neither up nor down
C22_Witness ==
    /\ mode = "view" /\ pc = "main_loop" /\ i = 0
    /\ up.point # 1 /\ down.point # 1
    /\ HorizontalAt(up) /\ HorizontalAt(down)
    /\ \A q \in ViewPoints : ~is_below(circ_vertex(positions, View, up), q)
    /\ \A q \in ViewPoints : ~is_below(q, circ_vertex(positions, View, down))

-----------------------------------------------------------------------------
(* C23 *)

\* the vertex that the coming iteration of the main loop handles: m after the swap
Handled == swap_walkers(positions, View, m, o, down).m

\* C23: in the main loop on a y-monotone view, the vertex an iteration handles (m after
\* the swap) is never above, under is_below, the vertex handled by the iteration before
\* (kept in p), and after each advance m := next(m) the new m is not above the
\* previous m: the assertion of line 547 never fails.
C23_MergedOrder ==
    /\ (pc = "main_loop" /\ i >= 1 /\ ~AllCoincide) =>
          /\ ~is_below(circ_vertex(positions, View, p), circ_vertex(positions, View, Handled))
          /\ ~is_below(circ_vertex(positions, View, p), circ_vertex(positions, View, m))
    /\ failure # "debug_assert!(!is_below(vertex(p), vertex(m)))"

\* an iteration is about to handle the walker of the other chain, which was swapped in
\* because m went below it, on a view of at least 5 points with points on both chains
C23_Witness ==
    /\ pc = "main_loop" /\ i >= 3
    /\ Len(View) >= 5
    /\ Handled = o
    /\ Handled.point # down.point
    /\ Handled.direction # p.direction
    /\ is_below(circ_vertex(positions, View, Handled), circ_vertex(positions, View, p))
    /\ is_below(circ_vertex(positions, View, m), circ_vertex(positions, View, o))

-----------------------------------------------------------------------------
(* C24 *)

\* the sign of the signed area of the k-th pushed triangle
TriSign(k) ==
    Sgn(TriArea2(positions[output[k].ids[1]], positions[output[k].ids[2]],
                 positions[output[k].ids[3]]))

\* C24: all the triangles pushed by one call of y_monotone_triangulation have the same
\* winding: no two of them have signed areas of opposite signs, whether they were
\* pushed on a chain switch or on the same chain, with m walking Forward or Backward.
\* The code does not do this: a chain switch made while m walks Forward pushes
\* (m, stack[k], stack[k + 1]) with the winding opposite to that of all other triangles.
C24_SameWinding ==
    \A j, k \in 1..Len(output) :
        output[j].sub = output[k].sub => TriSign(j) * TriSign(k) >= 0

\* the view (0,0), (1,1), (0,2), (0,1) has been triangulated from its first point: the
\* triangle of the first chain switch, made with m walking Forward, and the triangle of
\* the second, made with m walking Backward, have opposite windings
C24_Witness ==
    /\ mode = "view" /\ pc = "end_triangulation"
    /\ ring_positions(positions, View) = <<Vec2(0, 0), Vec2(1, 1), Vec2(0, 2), Vec2(0, 1)>>
    /\ Len(output) = 2
    /\ output[1].ids = <<3, 2, 5>> /\ output[1].branch = "switch"
    /\ output[1].direction = "Forward"
    /\ output[2].ids = <<4, 5, 3>> /\ output[2].branch = "switch"
    /\ output[2].direction = "Backward"
    /\ TriSign(1) = -1 /\ TriSign(2) = 1

-----------------------------------------------------------------------------
(* C25 *)

\* the points of the polygon, all rings together
AllPoints == UNION {{<<r, k>> : k \in 1..Len(rings[r])} : r \in 1..Len(rings)}

\* the point e is an endpoint of an added diagonal
OnDiagonal(e) == \E k \in 1..Len(diagonals) : e \in {diagonals[k][1], diagonals[k][2]}

\* C25: when the decomposition of a valid polygon has returned, every point classified
\* Split and every point classified Merge is an endpoint of at least one added
\* diagonal, and every added diagonal joins two distinct points that are not
\* neighbours in their ring.
C25_DiagonalsCoverSplitMerge ==
    DecompositionReturned =>
        /\ \A e \in AllPoints : vertex_type_of(e) \in {"Split", "Merge"} => OnDiagonal(e)
        /\ \A k \in 1..Len(diagonals) :
              /\ diagonals[k][1] # diagonals[k][2]
              /\ poly_next(rings, diagonals[k][1]) # diagonals[k][2]
              /\ poly_previous(rings, diagonals[k][1]) # diagonals[k][2]

\* a polygon with a Split point and a Merge point on its outer ring has been decomposed:
\* both are on diagonals, and one diagonal joins two points of the outer ring
C25_Witness ==
    /\ DecompositionReturned
    /\ \E e \in AllPoints : e[1] = 1 /\ vertex_type_of(e) = "Split" /\ OnDiagonal(e)
    /\ \E e \in AllPoints : e[1] = 1 /\ vertex_type_of(e) = "Merge" /\ OnDiagonal(e)
    /\ \E k \in 1..Len(diagonals) : diagonals[k][1][1] = 1 /\ diagonals[k][2][1] = 1

-----------------------------------------------------------------------------
(* C26 *)

\* C26: at every step of the decomposition, on valid and on malformed polygons, every
\* point of the sweep state has an entry in the helper table and is in the sweep state
\* once only; the edge found at a Split vertex therefore has a helper, and the panic!()
\* of the Split branch (line 248) is never reached.
C26_SweepHasHelpers ==
    mode = "complex" =>
        /\ \A k \in 1..Len(sweep_state) : sweep_state[k] \in DOMAIN helper
        /\ \A j, k \in 1..Len(sweep_state) : j < k => sweep_state[j] # sweep_state[k]
        /\ failure # "the edge right of a Split vertex has no helper"

\* a Split vertex of a hole has just been handled while two edges or more were in the
\* sweep state, after a Right vertex had removed an entry of the helper table
C26_Witness ==
    /\ mode = "complex" /\ pc = "sweep"
    /\ last_type = "Split"
    /\ failure = ""
    /\ Len(sweep_state) >= 3
    /\ diagonals # <<>>
    /\ \A k \in 1..Len(sweep_state) : sweep_state[k] \in DOMAIN helper
    /\ \E k \in 1..ev : /\ vertex_type_of(sorted_edges[k]) = "Right"
                         /\ poly_previous(rings, sorted_edges[k]) \notin DOMAIN helper

=============================================================================
